---- MODULE Spec2Model ----
(***************************************************************************)
(* Model of src/unix.rs of listenfd: the socket-activation reader          *)
(* (get_fds) and the descriptor conversions (validate_socket,              *)
(* mark_cloexec, make_custom and its four instantiations).                 *)
(*                                                                         *)
(* Strings are sequences of one-character strings, so that parsing is      *)
(* computed digit by digit the way str::parse does it.                     *)
(***************************************************************************)
EXTENDS Integers, Sequences, FiniteSets

VARIABLES
    env,              \* process environment: LISTEN_FDS and LISTEN_PID
    pid,              \* rustix::process::getpid() of this process
    overflow_checks,  \* whether the build panics on integer overflow
    calls,            \* one record per get_fds call made so far
    fdtab,            \* the kernel's descriptor table of this process
    raw,              \* fd -> number of live OwnedFd values naming it
    handles,          \* fd -> the live typed handles owning it
    last,             \* outcome of the last conversion call
    closes,           \* fd -> number of close() calls made by dropped owners
    thr               \* thread -> how far its call of get_fds has come

vars == <<env, pid, overflow_checks, calls, fdtab, raw, handles, last, closes, thr>>

-----------------------------------------------------------------------------
(* Bounds of the model *)

\* get_fds is called at most this many times in one behaviour
MaxCalls == 3
\* LISTEN_FDS takes every decimal count 0..MaxCount (besides the edge values)
MaxCount == 3
\* get_fds is followed on the descriptor numbers 3..MaxFd
MaxFd == 5
\* the conversions are followed on the descriptor numbers 3..MaxConvFd
MaxConvFd == 3
\* whole lives of descriptors are followed on the numbers 3..MaxOwnFd
MaxOwnFd == 4
\* number of threads that call get_fds at the same time
NumThreads == 2

-----------------------------------------------------------------------------
(* i32, the type of RawFd and of the parsed count *)

I32Max == 2147483647
I32Min == -I32Max - 1

\* a + b in i32 for b >= 0: the sum, wrapped around to I32Min when it does
\* not fit (wrapping_add); written so that no intermediate value leaves i32
AddOverflows(a, b) == b > 0 /\ a > I32Max - b
WrappingAdd(a, b) ==
    IF AddOverflows(a, b) THEN I32Min + ((b - (I32Max - a)) - 1) ELSE a + b

-----------------------------------------------------------------------------
(* str::parse::<i32>() and str::parse::<NonZeroI32>() *)

ParseErr == [ok |-> FALSE, val |-> 0]
ParseOk(n) == [ok |-> TRUE, val |-> n]

IsDigit(c) == c \in {"0", "1", "2", "3", "4", "5", "6", "7", "8", "9"}

DigitVal(c) ==
    CASE c = "0" -> 0 [] c = "1" -> 1 [] c = "2" -> 2 [] c = "3" -> 3
      [] c = "4" -> 4 [] c = "5" -> 5 [] c = "6" -> 6 [] c = "7" -> 7
      [] c = "8" -> 8 [] c = "9" -> 9

\* i32::checked_mul(acc, 10) fails
MulOverflows(acc) == acc > I32Max \div 10 \/ acc < -(I32Max \div 10)

\* the digit loop of from_str_radix: checked_mul by 10, then checked_add
\* (positive) or checked_sub (negative) of each digit; any non-digit or
\* any overflow is an error
RECURSIVE ParseDigits(_, _, _)
ParseDigits(digits, acc, positive) ==
    IF Len(digits) = 0 THEN ParseOk(acc)
    ELSE IF ~IsDigit(Head(digits)) THEN ParseErr
    ELSE IF MulOverflows(acc) THEN ParseErr
    ELSE LET d == DigitVal(Head(digits))
             m == acc * 10
         IN  IF positive
             THEN IF m > I32Max - d THEN ParseErr
                  ELSE ParseDigits(Tail(digits), m + d, positive)
             ELSE IF m < I32Min + d THEN ParseErr
                  ELSE ParseDigits(Tail(digits), m - d, positive)

\* i32::from_str: empty -> error; a lone sign -> error; one leading '+' or
\* '-' is accepted; the rest must be digits
ParseI32(s) ==
    IF Len(s) = 0 THEN ParseErr
    ELSE IF Head(s) \in {"+", "-"} /\ Len(s) = 1 THEN ParseErr
    ELSE IF Head(s) = "+" THEN ParseDigits(Tail(s), 0, TRUE)
    ELSE IF Head(s) = "-" THEN ParseDigits(Tail(s), 0, FALSE)
    ELSE ParseDigits(s, 0, TRUE)

\* NonZeroI32::from_str, the type of Pid::as_raw_nonzero(): the i32 parse,
\* then zero is rejected. (Where a rustix backend has NonZeroU32 instead, a
\* negative number is rejected at its sign; it equals no process id anyway.)
ParseNonZeroI32(s) ==
    LET r == ParseI32(s)
    IN  IF r.ok /\ r.val = 0 THEN ParseErr ELSE r

-----------------------------------------------------------------------------
(* the environment *)

Absent == [st |-> "absent", s |-> <<>>]
NotUnicode == [st |-> "notunicode", s |-> <<>>]
Str(s) == [st |-> "unicode", s |-> s]

\* std::env::var: Ok(s), Err(NotPresent) or Err(NotUnicode)
EnvVar(e, name) ==
    CASE e[name].st = "unicode" -> [ok |-> TRUE, s |-> e[name].s, err |-> "none"]
      [] e[name].st = "absent" -> [ok |-> FALSE, s |-> <<>>, err |-> "NotPresent"]
      [] e[name].st = "notunicode" -> [ok |-> FALSE, s |-> <<>>, err |-> "NotUnicode"]

\* std::env::remove_var
RemoveVar(e, name) == [e EXCEPT ![name] = Absent]

\* decimal text of a natural number, as a supervisor writes it
RECURSIVE Dec(_)
Dec(n) ==
    LET d == <<"0", "1", "2", "3", "4", "5", "6", "7", "8", "9">>[(n % 10) + 1]
    IN  IF n < 10 THEN <<d>> ELSE Append(Dec(n \div 10), d)

\* values LISTEN_FDS is drawn from
FdsValues ==
    {Absent, NotUnicode}
    \cup {Str(Dec(n)) : n \in 0..MaxCount}
    \cup {Str(Dec(n)) : n \in {I32Max - 3, I32Max - 2, I32Max - 1, I32Max}}
    \cup {Str(<<"2", "1", "4", "7", "4", "8", "3", "6", "4", "8">>)}
    \cup {Str(<<>>), Str(<<"a">>), Str(<<"-", "1">>), Str(<<"+", "2">>),
          Str(<<"0", "2">>), Str(<<" ", "2">>), Str(<<"2", "a">>), Str(<<"-">>)}

\* process ids this process may have
OwnPids == {7, 12}

\* values LISTEN_PID is drawn from
PidValues ==
    {Absent, NotUnicode}
    \cup {Str(Dec(n)) : n \in {0, 7, 12, 13}}
    \cup {Str(<<>>), Str(<<"a">>), Str(<<"+", "7">>), Str(<<"0", "7">>),
          Str(<<"-", "7">>), Str(<<" ", "7">>), Str(<<"7", " ">>)}

-----------------------------------------------------------------------------
(* get_fds *)

\* a descriptor number that refers to nothing
Closed == [kind |-> "closed", fam |-> "none", type |-> "none", cloexec |-> FALSE]

\* the value of `3 + offset` in i32 (wrapped when the build does not check)
FdOfOffset(offset) == WrappingAdd(3, offset)

\* number of items of the range 0..count
RangeLen(count) == IF count > 0 THEN count ELSE 0

\* the Vec get_fds collects: (0..count).map(|offset| 3 + offset). Its
\* length can be 2^31-1, so it is kept as its length; VecAt gives its items
VecOf(count) == [len |-> RangeLen(count)]
VecAt(v, i) == FdOfOffset(i)

\* some `3 + offset` of the range overflows i32 (the last one does, if any)
Overflows(count) == count > 0 /\ AddOverflows(3, count - 1)

\* fd is an item of the vector v
InVec(v, fd) == fd - 3 >= 0 /\ fd - 3 < v.len /\ VecAt(v, fd - 3) = fd

RetNone == [tag |-> "None", vec |-> [len |-> 0]]
RetSome(v) == [tag |-> "Some", vec |-> v]
\* the panic of an overflowing `3 + offset`: vec is what had been collected,
\* which the unwinding drops
RetPanic(v) == [tag |-> "panic", vec |-> v]

\* the offsets of 0..count that come before the first overflowing one
BeforeOverflow(count) == IF Overflows(count) THEN I32Max - 2 ELSE RangeLen(count)

\* line 118: env::var("LISTEN_FDS").ok().and_then(|x| x.parse().ok())
ReadCount(e) ==
    LET v == EnvVar(e, "LISTEN_FDS")
    IN  IF v.ok THEN ParseI32(v.s) ELSE ParseErr

\* PidOk with every parsable LISTEN_PID accepted, whatever process it names
PidOk_AnyNumber(e, mypid) ==
    LET v == EnvVar(e, "LISTEN_PID")
    IN  CASE ~v.ok /\ v.err = "NotPresent" -> TRUE
          [] v.ok /\ v.s = <<>> -> TRUE
          [] v.ok /\ v.s # <<>> -> ParseNonZeroI32(v.s).ok
          [] OTHER -> FALSE

\* lines 119-123: the match on LISTEN_PID
PidOk(e, mypid) ==
    LET v == EnvVar(e, "LISTEN_PID")
    IN  CASE ~v.ok /\ v.err = "NotPresent" -> TRUE
          [] v.ok /\ v.s = <<>> -> TRUE
          [] v.ok /\ v.s # <<>> ->
               LET p == ParseNonZeroI32(v.s) IN p.ok /\ p.val = mypid
          [] OTHER -> FALSE

\* EraseSignals with the removal of LISTEN_FDS forgotten
EraseSignals_KeepFds(e) == RemoveVar(e, "LISTEN_PID")

\* EraseSignals with the removal of LISTEN_PID forgotten
EraseSignals_KeepPid(e) == RemoveVar(e, "LISTEN_FDS")

\* lines 125-126: both variables are removed
EraseSignals(e) == RemoveVar(RemoveVar(e, "LISTEN_PID"), "LISTEN_FDS")

\* get_fds building the Vec before it looks at `ok`: a refused call has
\* wrapped the descriptors and drops them on its way out
get_fds_BuildsFirst(e, mypid, checks) ==
    LET count == ReadCount(e)
    IN  IF count.ok
        THEN LET ok == PidOk(e, mypid)
                 e2 == EraseSignals(e)
                 v == VecOf(IF Overflows(count.val) THEN 0 ELSE count.val)
             IN  IF ok
                 THEN [ret |-> RetSome(v), env |-> e2]
                 ELSE [ret |-> [tag |-> "None", vec |-> v], env |-> e2]
        ELSE [ret |-> RetNone, env |-> e]

\* get_fds: what it returns (or that it panics) and the environment it
\* leaves behind. `checks` is whether `3 + offset` panics on overflow
get_fds(e, mypid, checks) ==
    LET count == ReadCount(e)
    IN  IF count.ok
        THEN LET ok == PidOk(e, mypid)
                 e2 == EraseSignals(e)
             IN  IF ok
                 THEN IF Overflows(count.val) /\ checks
                      THEN [ret |-> RetPanic(VecOf(BeforeOverflow(count.val))),
                            env |-> e2]
                      ELSE [ret |-> RetSome(VecOf(count.val)), env |-> e2]
                 ELSE [ret |-> RetNone, env |-> e2]
        ELSE [ret |-> RetNone, env |-> e]

\* the descriptor numbers the model follows
Fds == DOMAIN fdtab

\* Claim as it would be if a number that has an owner were not wrapped again
Claim_Once(rw, ret) ==
    [fd \in DOMAIN rw |->
        IF ret.tag = "Some" /\ InVec(ret.vec, fd) /\ rw[fd] = 0 THEN 1 ELSE rw[fd]]

\* OwnedFd::from_raw_fd on every item of a returned Vec: one more OwnedFd
\* for each of its descriptor numbers, whoever owns that number already
Claim(rw, ret) ==
    [fd \in DOMAIN rw |->
        IF ret.tag = "Some" /\ InVec(ret.vec, fd) THEN rw[fd] + 1 ELSE rw[fd]]

\* a Vec that is built and not returned is dropped: its items are closed
Unwound(tab, ret) ==
    [fd \in DOMAIN tab |->
        IF ret.tag # "Some" /\ InVec(ret.vec, fd) THEN Closed ELSE tab[fd]]
UnwoundCloses(cl, ret) ==
    [fd \in DOMAIN cl |->
        IF ret.tag # "Some" /\ InVec(ret.vec, fd) THEN cl[fd] + 1 ELSE cl[fd]]

\* a thread that is not inside get_fds
Idle == [pc |-> "idle", count |-> ParseErr, ok |-> FALSE, ret |-> RetNone]

\* one call of get_fds, from its first line to its return
GetFds ==
    /\ Len(calls) < MaxCalls
    /\ \A t \in DOMAIN thr : thr[t].pc = "idle"
    /\ LET r == get_fds(env, pid, overflow_checks)
       IN  /\ calls' = Append(calls, [before |-> env, ret |-> r.ret, after |-> r.env])
           /\ env' = r.env
           /\ raw' = Claim(raw, r.ret)
           /\ fdtab' = Unwound(fdtab, r.ret)
           /\ closes' = UnwoundCloses(closes, r.ret)
    /\ UNCHANGED <<pid, overflow_checks, handles, last, thr>>

-----------------------------------------------------------------------------
(* get_fds called by several threads with no synchronization: each thread
   runs the statements of get_fds in order, and the statements of different
   threads interleave. std::env makes each env::var and each
   env::remove_var atomic, nothing more *)

Threads == DOMAIN thr

\* line 118: the thread reads and parses LISTEN_FDS; None if that fails
T_ReadFds(t) ==
    /\ thr[t].pc = "idle"
    /\ LET count == ReadCount(env)
       IN  thr' = [thr EXCEPT ![t] =
                      IF count.ok
                      THEN [pc |-> "read_pid", count |-> count, ok |-> FALSE, ret |-> RetNone]
                      ELSE [pc |-> "done", count |-> count, ok |-> FALSE, ret |-> RetNone]]
    /\ UNCHANGED <<env, pid, overflow_checks, calls, fdtab, raw, handles, last, closes>>

\* lines 119-123: the thread reads LISTEN_PID and decides `ok`
T_ReadPid(t) ==
    /\ thr[t].pc = "read_pid"
    /\ thr' = [thr EXCEPT ![t].pc = "remove_pid", ![t].ok = PidOk(env, pid)]
    /\ UNCHANGED <<env, pid, overflow_checks, calls, fdtab, raw, handles, last, closes>>

\* line 125
T_RemovePid(t) ==
    /\ thr[t].pc = "remove_pid"
    /\ env' = RemoveVar(env, "LISTEN_PID")
    /\ thr' = [thr EXCEPT ![t].pc = "remove_fds"]
    /\ UNCHANGED <<pid, overflow_checks, calls, fdtab, raw, handles, last, closes>>

\* line 126
T_RemoveFds(t) ==
    /\ thr[t].pc = "remove_fds"
    /\ env' = RemoveVar(env, "LISTEN_FDS")
    /\ thr' = [thr EXCEPT ![t].pc = "return"]
    /\ UNCHANGED <<pid, overflow_checks, calls, fdtab, raw, handles, last, closes>>

\* lines 127-136: the thread builds and returns the Vec, or returns None
T_Return(t) ==
    /\ thr[t].pc = "return"
    /\ LET ret == IF thr[t].ok
                  THEN IF Overflows(thr[t].count.val) /\ overflow_checks
                       THEN RetPanic(VecOf(BeforeOverflow(thr[t].count.val)))
                       ELSE RetSome(VecOf(thr[t].count.val))
                  ELSE RetNone
       IN  /\ thr' = [thr EXCEPT ![t].pc = "done", ![t].ret = ret]
           /\ raw' = Claim(raw, ret)
           /\ fdtab' = Unwound(fdtab, ret)
           /\ closes' = UnwoundCloses(closes, ret)
    /\ UNCHANGED <<env, pid, overflow_checks, calls, handles, last>>

-----------------------------------------------------------------------------
(* descriptors and the system calls made on them *)

Families == {"INET", "INET6", "UNIX"}
Types == {"STREAM", "DGRAM"}

File(kind, cx) == [kind |-> kind, fam |-> "none", type |-> "none", cloexec |-> cx]
Socket(fam, type, cx) == [kind |-> "socket", fam |-> fam, type |-> type, cloexec |-> cx]

\* what a descriptor number can refer to when the process starts
DescValues ==
    {Closed}
    \cup {File(k, cx) : k \in {"file", "pipe"}, cx \in BOOLEAN}
    \cup {Socket(f, t, cx) : f \in Families, t \in Types, cx \in BOOLEAN}

\* which system call the kernel refuses for a reason of its own (a call on
\* a closed descriptor, or a socket call on a non-socket, fails in any case).
\* A conversion stops at the first call that fails, so one refusal per
\* conversion gives every outcome
NoRefusal == [fstat |-> FALSE, getsockname |-> FALSE, getsockopt |-> FALSE, fcntl |-> FALSE]
Sys ==
    {NoRefusal,
     [NoRefusal EXCEPT !.fstat = TRUE],
     [NoRefusal EXCEPT !.getsockname = TRUE],
     [NoRefusal EXCEPT !.getsockopt = TRUE],
     [NoRefusal EXCEPT !.fcntl = TRUE]}

\* a world is the descriptor table and the log of system calls made on it
World(tab) == [tab |-> tab, log |-> <<>>]
Logged(w, call, ok) == [w EXCEPT !.log = Append(@, [call |-> call, ok |-> ok])]

\* rustix::fs::fstat
fstat(w, fd, sys) ==
    LET ok == w.tab[fd].kind # "closed" /\ ~sys.fstat
    IN  [ok |-> ok, mode |-> w.tab[fd].kind, w |-> Logged(w, "fstat", ok)]

\* rustix::net::getsockname
getsockname(w, fd, sys) ==
    LET ok == w.tab[fd].kind = "socket" /\ ~sys.getsockname
    IN  [ok |-> ok, fam |-> w.tab[fd].fam, w |-> Logged(w, "getsockname", ok)]

\* rustix::net::sockopt::get_socket_type
get_socket_type(w, fd, sys) ==
    LET ok == w.tab[fd].kind = "socket" /\ ~sys.getsockopt
    IN  [ok |-> ok, type |-> w.tab[fd].type, w |-> Logged(w, "getsockopt", ok)]

\* rustix::fs::fcntl_setfd(fd, FdFlags::CLOEXEC)
fcntl_setfd(w, fd, sys) ==
    LET ok == w.tab[fd].kind # "closed" /\ ~sys.fcntl
    IN  [ok |-> ok,
         w |-> Logged(IF ok THEN [w EXCEPT !.tab[fd].cloexec = TRUE] ELSE w,
                      "fcntl_setfd", ok)]

\* dropping an OwnedFd closes the descriptor
DropFd(w, fd) ==
    Logged([w EXCEPT !.tab[fd] = Closed], "close", w.tab[fd].kind # "closed")

-----------------------------------------------------------------------------
(* the conversions *)

NoFd == -1
NoErr == [kind |-> "none", fd |-> NoFd, text |-> "", arg |-> ""]

\* Ok(fd)
Ok(fd, w) == [ok |-> TRUE, fd |-> fd, err |-> NoErr, w |-> w]

\* Err((io::Error::new(kind, format!(...)), fd)): the message is the
\* descriptor it prints, its fixed text and what it interpolates after it
Err(kind, msgfd, text, arg, fd, w) ==
    [ok |-> FALSE, fd |-> fd,
     err |-> [kind |-> kind, fd |-> msgfd, text |-> text, arg |-> arg], w |-> w]

\* is_sock with unwrap_or(true): a failed fstat counts as a socket
is_sock_FailOpen(w, fd, sys) ==
    LET st == fstat(w, fd, sys)
    IN  [val |-> IF st.ok THEN st.mode = "socket" ELSE TRUE, w |-> st.w]

is_sock(w, fd, sys) ==
    LET st == fstat(w, fd, sys)
    IN  [val |-> IF st.ok THEN st.mode = "socket" ELSE FALSE, w |-> st.w]

\* validate_socket with the comparison of the socket type left out
validate_socket_AnyType(w, fd, sock_fam, sock_type, hint, sys) ==
    LET s == is_sock(w, fd, sys)
    IN  IF ~s.val
        THEN Err("InvalidInput", fd, "is not a socket", "", fd, s.w)
        ELSE LET n == getsockname(s.w, fd, sys)
                 is_valid ==
                     IF n.ok
                     THEN n.fam = sock_fam \/ (n.fam = "INET6" /\ sock_fam = "INET")
                     ELSE FALSE
             IN  IF ~is_valid
                 THEN Err("InvalidInput", fd, "is not a valid", hint, fd, n.w)
                 ELSE Ok(fd, n.w)

validate_socket(w, fd, sock_fam, sock_type, hint, sys) ==
    LET s == is_sock(w, fd, sys)
    IN  IF ~s.val
        THEN Err("InvalidInput", fd, "is not a socket", "", fd, s.w)
        ELSE LET n == getsockname(s.w, fd, sys)
                 t == get_socket_type(n.w, fd, sys)
                 is_valid ==
                     IF n.ok
                     THEN (t.ok /\ t.type = sock_type)
                          /\ (n.fam = sock_fam
                              \/ (n.fam = "INET6" /\ sock_fam = "INET"))
                     ELSE FALSE
                 w2 == IF n.ok THEN t.w ELSE n.w
             IN  IF ~is_valid
                 THEN Err("InvalidInput", fd, "is not a valid", hint, fd, w2)
                 ELSE Ok(fd, w2)

\* mark_cloexec whose error path drops the descriptor it reports
mark_cloexec_Drops(w, fd, sys) ==
    LET r == fcntl_setfd(w, fd, sys)
    IN  IF r.ok THEN Ok(fd, r.w)
        ELSE Err("Other", fd, "cannot be marked as FD_CLOEXEC", "errno", fd,
                 DropFd(r.w, fd))

\* mark_cloexec with the result of fcntl_setfd ignored
mark_cloexec_Ignores(w, fd, sys) ==
    LET r == fcntl_setfd(w, fd, sys)
    IN  Ok(fd, r.w)

mark_cloexec(w, fd, sys) ==
    LET r == fcntl_setfd(w, fd, sys)
    IN  IF r.ok THEN Ok(fd, r.w)
        ELSE Err("Other", fd, "cannot be marked as FD_CLOEXEC", "errno", fd, r.w)

\* FromFd::from_fd: the descriptor moves into the typed handle
from_fd(r) == [r EXCEPT !.w = Logged(@, "from_fd", TRUE)]

\* validate_socket(..).and_then(mark_cloexec).map(|fd| FromFd::from_fd(fd))
\* make_custom with the two steps in the other order: the descriptor is
\* marked close-on-exec before it is validated
make_custom_HardensFirst(w, fd, sock_fam, sock_type, hint, sys) ==
    LET m == mark_cloexec(w, fd, sys)
    IN  IF m.ok
        THEN LET v == validate_socket(m.w, m.fd, sock_fam, sock_type, hint, sys)
             IN  IF v.ok THEN from_fd(v) ELSE v
        ELSE m

make_custom(w, fd, sock_fam, sock_type, hint, sys) ==
    LET v == validate_socket(w, fd, sock_fam, sock_type, hint, sys)
    IN  IF v.ok
        THEN LET m == mark_cloexec(v.w, v.fd, sys)
             IN  IF m.ok THEN from_fd(m) ELSE m
        ELSE v

make_tcp_listener(w, fd, sys) ==
    LET v == validate_socket(w, fd, "INET", "STREAM", "unix stream socket", sys)
    IN  IF v.ok
        THEN LET m == mark_cloexec(v.w, v.fd, sys)
             IN  IF m.ok THEN from_fd(m) ELSE m
        ELSE v

\* written with `?`: an Err of either step is returned at once
make_unix_listener(w, fd, sys) ==
    LET v == validate_socket(w, fd, "UNIX", "STREAM", "unix socket", sys)
    IN  IF ~v.ok THEN v
        ELSE LET m == mark_cloexec(v.w, v.fd, sys)
             IN  IF ~m.ok THEN m ELSE from_fd(m)

\* make_udp_socket without its mark_cloexec step
make_udp_socket_SkipsCloexec(w, fd, sys) ==
    LET v == validate_socket(w, fd, "INET", "DGRAM", "udp socket", sys)
    IN  IF ~v.ok THEN v ELSE from_fd(v)

make_udp_socket(w, fd, sys) ==
    LET v == validate_socket(w, fd, "INET", "DGRAM", "udp socket", sys)
    IN  IF ~v.ok THEN v
        ELSE LET m == mark_cloexec(v.w, v.fd, sys)
             IN  IF ~m.ok THEN m ELSE from_fd(m)

make_unix_datagram(w, fd, sys) ==
    LET v == validate_socket(w, fd, "UNIX", "DGRAM", "unix datagram socket", sys)
    IN  IF v.ok
        THEN LET m == mark_cloexec(v.w, v.fd, sys)
             IN  IF m.ok THEN from_fd(m) ELSE m
        ELSE v

NoCall ==
    [op |-> "none", fd |-> NoFd, fam |-> "none", type |-> "none", hint |-> "",
     before |-> Closed, owned |-> 0, ok |-> FALSE, retfd |-> NoFd, err |-> NoErr,
     log |-> <<>>]

\* Converted with the handle made from a copy of the descriptor number
\* (from_raw_fd(fd.as_raw_fd())), the caller keeping its OwnedFd
Converted_Copies(op, handle, fd, fam, type, hint, r) ==
    /\ fdtab' = r.w.tab
    /\ raw' = raw
    /\ handles' = IF r.ok THEN [handles EXCEPT ![r.fd] = Append(@, handle)] ELSE handles
    /\ last' = [op |-> op, fd |-> fd, fam |-> fam, type |-> type, hint |-> hint,
                before |-> fdtab[fd], owned |-> raw[fd], ok |-> r.ok,
                retfd |-> r.fd, err |-> r.err, log |-> r.w.log]
    /\ UNCHANGED <<env, pid, overflow_checks, calls, closes, thr>>

\* the caller passes one OwnedFd it holds; an Ok moves the descriptor into
\* the handle, an Err gives the OwnedFd of the result back to the caller
Converted(op, handle, fd, fam, type, hint, r) ==
    /\ fdtab' = r.w.tab
    /\ raw' = IF r.ok THEN [raw EXCEPT ![fd] = @ - 1]
              ELSE IF r.fd = fd THEN raw
              ELSE [x \in Fds |-> IF x = fd THEN raw[x] - 1
                                  ELSE IF x = r.fd THEN raw[x] + 1 ELSE raw[x]]
    /\ handles' = IF r.ok THEN [handles EXCEPT ![r.fd] = Append(@, handle)] ELSE handles
    /\ last' = [op |-> op, fd |-> fd, fam |-> fam, type |-> type, hint |-> hint,
                before |-> fdtab[fd], owned |-> raw[fd], ok |-> r.ok,
                retfd |-> r.fd, err |-> r.err, log |-> r.w.log]
    /\ UNCHANGED <<env, pid, overflow_checks, calls, closes, thr>>

MakeTcpListener ==
    \E fd \in Fds, sys \in Sys :
        /\ raw[fd] >= 1
        /\ Converted("make_tcp_listener", "TcpListener", fd, "INET", "STREAM",
                     "unix stream socket", make_tcp_listener(World(fdtab), fd, sys))

MakeUnixListener ==
    \E fd \in Fds, sys \in Sys :
        /\ raw[fd] >= 1
        /\ Converted("make_unix_listener", "UnixListener", fd, "UNIX", "STREAM",
                     "unix socket", make_unix_listener(World(fdtab), fd, sys))

MakeUdpSocket ==
    \E fd \in Fds, sys \in Sys :
        /\ raw[fd] >= 1
        /\ Converted("make_udp_socket", "UdpSocket", fd, "INET", "DGRAM",
                     "udp socket", make_udp_socket(World(fdtab), fd, sys))

MakeUnixDatagram ==
    \E fd \in Fds, sys \in Sys :
        /\ raw[fd] >= 1
        /\ Converted("make_unix_datagram", "UnixDatagram", fd, "UNIX", "DGRAM",
                     "unix datagram socket", make_unix_datagram(World(fdtab), fd, sys))

\* the hint a caller of make_custom passes
CustomHint == "custom socket"

MakeCustom ==
    \E fd \in Fds, sys \in Sys, fam \in Families, type \in Types :
        /\ raw[fd] >= 1
        /\ Converted("make_custom", "Custom", fd, fam, type, CustomHint,
                     make_custom(World(fdtab), fd, fam, type, CustomHint, sys))

-----------------------------------------------------------------------------
(* the end of an owner *)

\* one close() call on fd, made by the Drop of an OwnedFd or of a handle
CloseCall(fd) ==
    /\ fdtab' = [fdtab EXCEPT ![fd] = Closed]
    /\ closes' = [closes EXCEPT ![fd] = @ + 1]

\* the caller drops an OwnedFd it holds
DropRaw ==
    \E fd \in Fds :
        /\ raw[fd] >= 1
        /\ raw' = [raw EXCEPT ![fd] = @ - 1]
        /\ CloseCall(fd)
        /\ UNCHANGED <<env, pid, overflow_checks, calls, handles, last, thr>>

\* the caller drops a typed handle
DropHandle ==
    \E fd \in Fds :
        /\ handles[fd] # <<>>
        /\ handles' = [handles EXCEPT ![fd] = Tail(@)]
        /\ CloseCall(fd)
        /\ UNCHANGED <<env, pid, overflow_checks, calls, raw, last, thr>>

-----------------------------------------------------------------------------
(* specifications *)

EnvValues ==
    {[LISTEN_FDS |-> f, LISTEN_PID |-> p] : f \in FdsValues, p \in PidValues}

\* get_fds under every environment a supervisor (or anyone) may leave
InitEnv ==
    /\ env \in EnvValues
    /\ pid \in OwnPids
    /\ overflow_checks \in BOOLEAN
    /\ calls = <<>>
    /\ fdtab = [fd \in 3..MaxFd |-> Socket("INET", "STREAM", FALSE)]
    /\ raw = [fd \in 3..MaxFd |-> 0]
    /\ handles = [fd \in 3..MaxFd |-> <<>>]
    /\ last = NoCall
    /\ closes = [fd \in 3..MaxFd |-> 0]
    /\ thr = [t \in 1..NumThreads |-> Idle]

NextEnv == GetFds

SpecEnv == InitEnv /\ [][NextEnv]_vars

\* the conversions on OwnedFd values naming every kind of descriptor
InitConv ==
    /\ env = [LISTEN_FDS |-> Absent, LISTEN_PID |-> Absent]
    /\ pid = 7
    /\ overflow_checks = FALSE
    /\ calls = <<>>
    /\ fdtab \in [3..MaxConvFd -> DescValues]
    /\ raw = [fd \in 3..MaxConvFd |-> 1]
    /\ handles = [fd \in 3..MaxConvFd |-> <<>>]
    /\ last = NoCall
    /\ closes = [fd \in 3..MaxConvFd |-> 0]
    /\ thr = [t \in 1..NumThreads |-> Idle]

NextConv ==
    \/ MakeTcpListener
    \/ MakeUnixListener
    \/ MakeUdpSocket
    \/ MakeUnixDatagram
    \/ MakeCustom

SpecConv == InitConv /\ [][NextConv]_vars

\* what the supervisor leaves at a descriptor number
Layout(fd) ==
    CASE fd = 3 -> Socket("INET6", "STREAM", FALSE)
      [] fd = 4 -> Socket("UNIX", "DGRAM", FALSE)
      [] OTHER -> File("pipe", FALSE)

\* the environments of a process started by a supervisor
OwnEnvValues ==
    {[LISTEN_FDS |-> f, LISTEN_PID |-> p] :
        f \in {Str(Dec(n)) : n \in 1..MaxCount} \cup {Str(Dec(I32Max))},
        p \in {Str(Dec(7)), Str(Dec(13))}}

\* whole lives of descriptors: get_fds, conversions and drops in any order,
\* in a process that was passed the descriptors 3..3+passed-1
Init ==
    /\ env \in OwnEnvValues
    /\ pid = 7
    /\ overflow_checks \in BOOLEAN
    /\ calls = <<>>
    /\ \E passed \in 0..(MaxOwnFd - 2) :
           fdtab = [fd \in 3..MaxOwnFd |-> IF fd - 3 < passed THEN Layout(fd) ELSE Closed]
    /\ raw = [fd \in 3..MaxOwnFd |-> 0]
    /\ handles = [fd \in 3..MaxOwnFd |-> <<>>]
    /\ last = NoCall
    /\ closes = [fd \in 3..MaxOwnFd |-> 0]
    /\ thr = [t \in 1..NumThreads |-> Idle]

Next ==
    \/ GetFds
    \/ MakeTcpListener
    \/ MakeUnixListener
    \/ MakeUdpSocket
    \/ MakeUnixDatagram
    \/ MakeCustom
    \/ DropRaw
    \/ DropHandle

Spec == Init /\ [][Next]_vars

\* the environments the threads start in
ThreadEnvValues ==
    {[LISTEN_FDS |-> f, LISTEN_PID |-> p] :
        f \in {Str(Dec(n)) : n \in 0..MaxCount} \cup {Absent, Str(<<"a">>)},
        p \in {Absent, Str(<<>>), Str(Dec(7)), Str(Dec(13))}}

\* get_fds called once by each of the threads, at the same time
InitThreads ==
    /\ env \in ThreadEnvValues
    /\ pid = 7
    /\ overflow_checks = FALSE
    /\ calls = <<>>
    /\ fdtab = [fd \in 3..MaxOwnFd |-> Layout(fd)]
    /\ raw = [fd \in 3..MaxOwnFd |-> 0]
    /\ handles = [fd \in 3..MaxOwnFd |-> <<>>]
    /\ last = NoCall
    /\ closes = [fd \in 3..MaxOwnFd |-> 0]
    /\ thr = [t \in 1..NumThreads |-> Idle]

NextThreads ==
    \E t \in Threads :
        \/ T_ReadFds(t)
        \/ T_ReadPid(t)
        \/ T_RemovePid(t)
        \/ T_RemoveFds(t)
        \/ T_Return(t)

SpecThreads == InitThreads /\ [][NextThreads]_vars

-----------------------------------------------------------------------------
(* Claims about get_fds, checked under SpecEnv *)

Call(i) == calls[i]
CallIds == 1..Len(calls)
Erased(e) == e["LISTEN_FDS"] = Absent /\ e["LISTEN_PID"] = Absent

\* the count a LISTEN_FDS value parses to, if it does
CountOf(e) == ParseI32(e["LISTEN_FDS"].s)
ParsesAsCount(e) == e["LISTEN_FDS"].st = "unicode" /\ CountOf(e).ok

\* C2: get_fds is one-shot. With no write to the environment between the
\* calls, only the first call can return Some, and after a call that
\* returned Some every later call returns None.
C2_OneShot ==
    /\ \A j \in CallIds : j > 1 => Call(j).ret.tag # "Some"
    /\ \A i, j \in CallIds :
           (i < j /\ Call(i).ret.tag = "Some") => Call(j).ret.tag = "None"

\* LISTEN_FDS=2 and LISTEN_PID=<own pid>: the first call gave the
\* descriptors 3 and 4, the second call gave None
C2_Witness ==
    /\ Len(calls) >= 2
    /\ Call(1).before = [LISTEN_FDS |-> Str(<<"2">>), LISTEN_PID |-> Str(Dec(pid))]
    /\ Call(1).ret.tag = "Some"
    /\ Call(1).ret.vec.len = 2
    /\ VecAt(Call(1).ret.vec, 0) = 3
    /\ VecAt(Call(1).ret.vec, 1) = 4
    /\ Call(2).ret.tag = "None"

\* C3: whenever the LISTEN_FDS that get_fds reads parses as a count, both
\* LISTEN_FDS and LISTEN_PID are absent after the call, whether or not
\* the call was authorized.
C3_ErasedWhenCountParses ==
    \A i \in CallIds : ParsesAsCount(Call(i).before) => Erased(Call(i).after)

\* LISTEN_FDS=3 and LISTEN_PID=13 (another process): None, and both erased
C3_Witness ==
    /\ Len(calls) >= 1
    /\ Call(1).before = [LISTEN_FDS |-> Str(<<"3">>), LISTEN_PID |-> Str(<<"1", "3">>)]
    /\ Call(1).ret.tag = "None"
    /\ Erased(Call(1).after)
    /\ Erased(env)

\* C4: after every call of get_fds, whatever its outcome, both LISTEN_FDS
\* and LISTEN_PID are unset.
C4_AlwaysErased ==
    \A i \in CallIds : Erased(Call(i).after)

\* LISTEN_FDS holds a non-negative decimal integer
NonNegativeCount(e) == ParsesAsCount(e) /\ CountOf(e).val >= 0

\* C5: get_fds returns None whenever LISTEN_FDS is absent or does not hold
\* a non-negative decimal integer (text, the empty string, -1, ...),
\* whatever LISTEN_PID holds.
C5_NoneUnlessNonNegativeCount ==
    \A i \in CallIds : ~NonNegativeCount(Call(i).before) => Call(i).ret.tag = "None"

\* the authorization policy, for a value v of LISTEN_PID
Authorized(v, mypid) ==
    \/ v = Absent
    \/ v = Str(<<>>)
    \/ v.st = "unicode" /\ ParseI32(v.s).ok /\ ParseI32(v.s).val = mypid

Probes(n) == {k \in 0..MaxFd : k < n} \cup {k \in {n - 2, n - 1} : k >= 0}

\* C7: an authorized call with declared count n >= 0 returns exactly n
\* descriptors, the i-th (from 0) being the number 3 + i, so none of 0-2.
C7_ThreeOnwards ==
    \A i \in CallIds :
        (Call(i).ret.tag = "Some" /\ CountOf(Call(i).before).val >= 0) =>
            /\ Call(i).ret.vec.len = CountOf(Call(i).before).val
            /\ \A k \in Probes(Call(i).ret.vec.len) :
                   /\ VecAt(Call(i).ret.vec, k) >= 3
                   /\ VecAt(Call(i).ret.vec, k) - 3 = k

-----------------------------------------------------------------------------
(* Claims about the conversions, checked under SpecConv *)

Called == last.op # "none"
Text(t) == last.err.text = t

\* the system calls of the last conversion, in order, and those that succeeded
LogCalls == [i \in 1..Len(last.log) |-> last.log[i].call]
Succeeded(call) == \E i \in 1..Len(last.log) : last.log[i] = [call |-> call, ok |-> TRUE]
Made(call) == \E i \in 1..Len(last.log) : last.log[i].call = call

\* validate_socket returned Ok in the last conversion
Validated == Called /\ (last.ok \/ Text("cannot be marked as FD_CLOEXEC"))

\* C1: every failure of each of the five conversions returns the error
\* together with the descriptor that was passed in, and that descriptor has
\* been neither closed nor dropped: the caller owns it as before.
C1_FailureReturnsDescriptor ==
    (Called /\ ~last.ok) =>
        /\ last.err.kind # "none"
        /\ last.retfd = last.fd
        /\ ~Made("close")
        /\ fdtab[last.fd].kind = last.before.kind
        /\ raw[last.fd] = last.owned
        /\ handles[last.fd] = <<>>

\* a socket that passed validation and then could not be marked close-on-exec
C1_Witness ==
    /\ last.op = "make_unix_listener"
    /\ ~last.ok
    /\ Text("cannot be marked as FD_CLOEXEC")
    /\ last.before.kind = "socket"
    /\ last.retfd = last.fd

\* the family of the descriptor is the expected one, or IPv6 for IPv4
FamilyMatches ==
    last.before.fam = last.fam \/ (last.before.fam = "INET6" /\ last.fam = "INET")

\* C8: for a descriptor that is a socket, validation against (expected
\* family, expected type) succeeds if and only if the local-address query
\* succeeds, the observed type is the expected one, and the observed
\* family is the expected one or is IPv6 where IPv4 is expected.
C8_ValidationPolicy ==
    (Called /\ last.before.kind = "socket" /\ Succeeded("fstat")) =>
        (Validated <=>
            /\ Succeeded("getsockname")
            /\ Succeeded("getsockopt") /\ last.before.type = last.type
            /\ FamilyMatches)

\* an IPv6 stream socket passes as the (IPv4, stream) of make_tcp_listener
C8_Witness ==
    /\ last.op = "make_tcp_listener"
    /\ last.before.kind = "socket"
    /\ last.before.fam = "INET6"
    /\ last.before.type = "STREAM"
    /\ Validated
    /\ last.ok

\* C9: a conversion validates, then hardens, then materializes: close-on-exec
\* is set only after the validation succeeded, a handle is made only after
\* both succeeded, so a returned handle is a validated socket with
\* close-on-exec set, and a failure to set the flag fails the conversion.
C9_ValidateHardenMaterialize ==
    Called =>
        /\ Made("fcntl_setfd") =>
               /\ Len(last.log) >= 4
               /\ SubSeq(last.log, 1, 3) =
                      <<[call |-> "fstat", ok |-> TRUE],
                        [call |-> "getsockname", ok |-> TRUE],
                        [call |-> "getsockopt", ok |-> TRUE]>>
               /\ last.log[4].call = "fcntl_setfd"
               /\ last.before.kind = "socket"
               /\ last.before.type = last.type
               /\ FamilyMatches
        /\ Made("from_fd") =>
               /\ Len(last.log) = 5
               /\ last.log[4] = [call |-> "fcntl_setfd", ok |-> TRUE]
               /\ last.log[5].call = "from_fd"
        /\ last.ok <=> Made("from_fd")
        /\ last.ok =>
               /\ fdtab[last.fd].kind = "socket"
               /\ fdtab[last.fd].cloexec
               /\ handles[last.fd] # <<>>
               /\ raw[last.fd] = last.owned - 1
        /\ (Made("fcntl_setfd") /\ ~Succeeded("fcntl_setfd")) =>
               /\ ~last.ok
               /\ Text("cannot be marked as FD_CLOEXEC")
               /\ handles[last.fd] = <<>>

\* a Unix datagram socket without close-on-exec became a UnixDatagram with it
C9_Witness ==
    /\ last.op = "make_unix_datagram"
    /\ last.ok
    /\ last.before = Socket("UNIX", "DGRAM", FALSE)
    /\ fdtab[last.fd].cloexec
    /\ handles[last.fd] = <<"UnixDatagram">>

\* C10: for a descriptor that is not an open socket (a file, a pipe, a
\* closed number, or one whose fstat fails) every conversion fails with the
\* not-a-socket error, having made no other system call than fstat and
\* having changed nothing of the descriptor.
C10_NotASocket ==
    (Called /\ (last.before.kind # "socket" \/ ~Succeeded("fstat"))) =>
        /\ ~last.ok
        /\ last.err.kind = "InvalidInput"
        /\ Text("is not a socket")
        /\ LogCalls = <<"fstat">>
        /\ fdtab[last.fd] = last.before

\* a closed descriptor number given to make_udp_socket
C10_Witness ==
    /\ last.op = "make_udp_socket"
    /\ last.before = Closed
    /\ ~last.ok
    /\ Text("is not a socket")

-----------------------------------------------------------------------------
(* Claims about the error descriptions and the arithmetic of get_fds *)

\* C11: whatever the error kind and whichever of the five conversions
\* failed, the description of the error names the offending descriptor and
\* the expected kind of socket (the hint of the conversion).
C11_ErrorNamesFdAndHint ==
    (Called /\ ~last.ok) =>
        /\ last.err.fd = last.fd
        /\ last.hint # ""
        /\ last.err.arg = last.hint

\* C12: get_fds never panics, and for every count the parser accepts and
\* every offset below it, `3 + offset` does not overflow i32 and is a
\* non-negative descriptor number.
C12_NoOverflowNoPanic ==
    \A i \in CallIds :
        /\ Call(i).ret.tag # "panic"
        /\ Call(i).ret.tag = "Some" =>
               \A k \in Probes(Call(i).ret.vec.len) :
                   /\ ~AddOverflows(3, k)
                   /\ VecAt(Call(i).ret.vec, k) >= 0

-----------------------------------------------------------------------------
(* Claims about ownership, checked under Spec *)

\* the live owners of a descriptor number
Owners(fd) == raw[fd] + Len(handles[fd])

\* the calls of get_fds that handed out the number fd
HandedOut(fd) == {i \in CallIds : Call(i).ret.tag = "Some" /\ InVec(Call(i).ret.vec, fd)}

\* C13: through any sequence of get_fds calls, conversions and drops a
\* descriptor has at most one live owner (an OwnedFd or a typed handle), it
\* is closed at most once, get_fds hands out each number at most once, a
\* successful conversion moves the owner into the handle and a failed one
\* gives it back.
C13_OneOwner ==
    /\ \A fd \in Fds :
           /\ Owners(fd) <= 1
           /\ closes[fd] <= 1
           /\ closes[fd] = 1 => Owners(fd) = 0
           /\ Cardinality(HandedOut(fd)) <= 1
    /\ (Called /\ last.ok /\ closes[last.fd] = 0) =>
           raw[last.fd] = 0 /\ Len(handles[last.fd]) = 1
    /\ (Called /\ ~last.ok /\ closes[last.fd] = 0) =>
           raw[last.fd] = 1 /\ handles[last.fd] = <<>>

\* descriptor 3 was handed out by get_fds, converted into a handle, and the
\* handle was dropped: one close, no owner left
C13_Witness ==
    /\ HandedOut(3) # {}
    /\ last.fd = 3
    /\ last.ok
    /\ closes[3] = 1
    /\ Owners(3) = 0
    /\ Owners(4) = 1

-----------------------------------------------------------------------------
(* Claims about concurrent calls of get_fds, checked under SpecThreads *)

Done(t) == thr[t].pc = "done"
Claimers == {t \in Threads : Done(t) /\ thr[t].ret.tag = "Some"}

\* C14: get_fds is not safe when threads call it without synchronization.
\* A thread returns Some exactly when the LISTEN_FDS it read parsed and the
\* LISTEN_PID it read authorized it, whatever the other threads erased
\* afterwards; so every thread that read both before any erased them
\* returns Some for the same numbers 3..3+count-1, and each of these
\* numbers gets one owning handle per such thread: more than one owner.
C14_EveryReaderClaims ==
    /\ \A t \in Threads :
           Done(t) =>
               /\ thr[t].ret.tag = "Some" <=> (thr[t].count.ok /\ thr[t].ok)
               /\ thr[t].ret.tag = "Some" => thr[t].ret.vec.len = RangeLen(thr[t].count.val)
    /\ \A t, u \in Claimers : thr[t].ret.vec = thr[u].ret.vec
    /\ (\A t \in Threads : thr[t].pc \in {"idle", "done"}) =>
           \A fd \in Fds :
               raw[fd] = Cardinality({t \in Claimers : fd - 3 < thr[t].ret.vec.len})

\* two threads have returned Some for LISTEN_FDS=2: the descriptors 3 and 4
\* have two owners each
C14_Witness ==
    /\ Cardinality(Claimers) >= 2
    /\ \A t \in Claimers : thr[t].ret.vec.len = 2
    /\ raw[3] >= 2
    /\ raw[4] >= 2

-----------------------------------------------------------------------------
(* Claims about retrying a conversion, checked under SpecConv *)

\* the result of the conversion `op` on a world
Outcome(op, w, fd, fam, type, hint, sys) ==
    CASE op = "make_tcp_listener" -> make_tcp_listener(w, fd, sys)
      [] op = "make_unix_listener" -> make_unix_listener(w, fd, sys)
      [] op = "make_udp_socket" -> make_udp_socket(w, fd, sys)
      [] op = "make_unix_datagram" -> make_unix_datagram(w, fd, sys)
      [] OTHER -> make_custom(w, fd, fam, type, hint, sys)

\* a conversion has just failed
FailedStep == last' # last /\ ~last'.ok

\* a conversion B is applied to the descriptor a failed conversion A returned
RetryStep == Called /\ ~last.ok /\ last' # last /\ last'.fd = last.retfd

\* the descriptor table as it was before the failed conversion A
BeforeFailure == [fdtab EXCEPT ![last.fd] = last.before]

\* C15: a failed conversion changes nothing about the descriptor (open or
\* not, kind, family, type, close-on-exec flag) and returns it to the caller,
\* so a conversion B of the descriptor that a failed conversion A returned
\* has the outcome that B has on the descriptor as it was before A.
C15_RetryAfterFailure ==
    [][ /\ FailedStep =>
               /\ fdtab' = fdtab
               /\ raw' = raw
               /\ handles' = handles
               /\ closes' = closes
               /\ last'.retfd = last'.fd
        /\ RetryStep =>
               \E sys \in Sys :
                   LET r == Outcome(last'.op, World(BeforeFailure), last.fd,
                                    last'.fam, last'.type, last'.hint, sys)
                   IN  /\ r.ok = last'.ok
                       /\ r.fd = last'.retfd
                       /\ r.err = last'.err
                       /\ r.w.log = last'.log
                       /\ r.w.tab = fdtab'
      ]_vars

\* a Unix datagram socket without close-on-exec was rejected by
\* make_tcp_listener; the descriptor came back as it was and
\* make_unix_datagram accepts it
C15_Witness ==
    /\ last.op = "make_tcp_listener"
    /\ ~last.ok
    /\ last.before = Socket("UNIX", "DGRAM", FALSE)
    /\ raw[last.retfd] = 1
    /\ fdtab[last.retfd] = Socket("UNIX", "DGRAM", FALSE)
    /\ make_unix_datagram(World(fdtab), last.retfd, NoRefusal).ok

-----------------------------------------------------------------------------
(* Claims about a refused handoff, checked under SpecEnv *)

\* a call of get_fds is made with a LISTEN_FDS that parses and a LISTEN_PID
\* that does not authorize this process
RefusedCall ==
    /\ Len(calls') = Len(calls) + 1
    /\ ParsesAsCount(env)
    /\ ~Authorized(env["LISTEN_PID"], pid)

\* C16: a call of get_fds that refuses an unauthorized handoff returns None
\* with no OwnedFd made for any number: no descriptor gets an owner, none is
\* closed, and the descriptor table is what it was before the call.
C16_RefusalClaimsNothing ==
    [][ RefusedCall =>
            /\ calls'[Len(calls')].ret = RetNone
            /\ raw' = raw
            /\ fdtab' = fdtab
            /\ closes' = closes
            /\ handles' = handles
      ]_vars

\* LISTEN_FDS=3 with LISTEN_PID=13 in process 7: the call returned None and
\* the descriptors 3, 4 and 5 are open, with no owner
C16_Witness ==
    /\ Len(calls) >= 1
    /\ pid = 7
    /\ Call(1).before = [LISTEN_FDS |-> Str(<<"3">>), LISTEN_PID |-> Str(<<"1", "3">>)]
    /\ Call(1).ret.tag = "None"
    /\ \A fd \in 3..5 : fdtab[fd] # Closed /\ raw[fd] = 0 /\ closes[fd] = 0

-----------------------------------------------------------------------------
(* Claims about the built-in conversions and make_custom, checked under
   SpecConv *)

\* what the claim compares of two results: Ok or Err, the kind of the error,
\* the descriptor returned, and the descriptor table left behind (which
\* holds the close-on-exec flags); the system calls made are compared too
SameOutcome(a, b) ==
    /\ a.ok = b.ok
    /\ a.err.kind = b.err.kind
    /\ a.err.fd = b.err.fd
    /\ a.fd = b.fd
    /\ a.w.tab = b.w.tab
    /\ a.w.log = b.w.log

\* the family and type that each built-in conversion is said to stand for
BuiltIns ==
    {[op |-> "make_tcp_listener", fam |-> "INET", type |-> "STREAM"],
     [op |-> "make_unix_listener", fam |-> "UNIX", type |-> "STREAM"],
     [op |-> "make_udp_socket", fam |-> "INET", type |-> "DGRAM"],
     [op |-> "make_unix_datagram", fam |-> "UNIX", type |-> "DGRAM"]}

\* C17: on every descriptor and under every refusal of a system call, each
\* of make_tcp_listener, make_unix_listener, make_udp_socket and
\* make_unix_datagram has the outcome of make_custom called with (IPv4,
\* stream), (Unix, stream), (IPv4, datagram) and (Unix, datagram): the same
\* Ok or Err, error kind, returned descriptor and close-on-exec flag,
\* whichever of the two styles it is written in; and so had the last
\* conversion made.
C17_BuiltInsAreMakeCustom ==
    /\ \A b \in BuiltIns, fd \in Fds, sys \in Sys :
           SameOutcome(Outcome(b.op, World(fdtab), fd, b.fam, b.type, "", sys),
                       make_custom(World(fdtab), fd, b.fam, b.type, CustomHint, sys))
    /\ \A b \in BuiltIns :
           (Called /\ last.op = b.op) =>
               \E sys \in Sys :
                   LET c == make_custom(World([fdtab EXCEPT ![last.fd] = last.before]),
                                        last.fd, b.fam, b.type, CustomHint, sys)
                   IN  /\ c.ok = last.ok
                       /\ c.err.kind = last.err.kind
                       /\ c.fd = last.retfd
                       /\ c.w.log = last.log
                       /\ c.w.tab = fdtab

\* make_udp_socket (written with `?`) accepted an IPv6 datagram socket and
\* set its close-on-exec flag, as make_custom(INET, DGRAM) does
C17_Witness ==
    /\ last.op = "make_udp_socket"
    /\ last.ok
    /\ last.before = Socket("INET6", "DGRAM", FALSE)
    /\ fdtab[last.fd] = Socket("INET6", "DGRAM", TRUE)
    /\ handles[last.fd] = <<"UdpSocket">>

====
